---------------------------- MODULE Spec2Model ----------------------------
(***************************************************************************)
(* Loneliness Risk Index Explorer (src/app.py).                            *)
(*                                                                         *)
(* The module models the three pieces of src/app.py that carry logic:      *)
(*   - load_excel_sheets: field-name and tract-identifier normalisation,   *)
(*     and the exclusion of sheets that cannot be loaded or have no        *)
(*     "tractid" column;                                                   *)
(*   - main: the widget loop that builds selected_cols and weights, and    *)
(*     the left joins of the selected sheets onto the tract registry;      *)
(*   - calculate_weighted_risk_index: the weighted mean per row.           *)
(*                                                                         *)
(* Strings are TLA+ strings (TLC evaluates Len, \o and SubSeq on them).    *)
(* A table cell is <<>> (pandas NaN / None) or <<v>> for a value v.        *)
(* Weights are counted in steps of the slider (0.5 each), and a risk_index *)
(* cell is <<>> or the exact fraction <<numerator, denominator>>; binary   *)
(* floating-point rounding is not represented.                             *)
(***************************************************************************)
EXTENDS Integers, Sequences, FiniteSets, TLC

VARIABLES
    pc,              \* position of the script / of the unit under study
    raw_id,          \* a raw cell of a sheet's "tractid" column
    out1,            \* the cell after line 37 was applied once
    out2,            \* the cell after line 37 was applied to out1 again
    workbook,        \* factors.xlsx: sheet name -> Missing or raw sheet
    tracts_ok,       \* whether load_tracts will obtain the shapefile
    sheet_dfs,       \* load_excel_sheets' dict, as a sequence in key order
    load_i,          \* index into SHEETS_TO_USE of the loader's loop
    gdf_tracts,      \* load_tracts' result (a table; no rows when it failed)
    selected_sheets, \* the multiselect's value, in selection order
    slider,          \* widget state: checked col_id -> slider value (steps)
    selected_cols,   \* main's selected_cols
    weights,         \* main's weights dict, as a sequence in key order
    merged_df,       \* main's merged_df (and calculate's df / df_clean)
    messages         \* st.warning / st.info / st.error calls so far

vars == <<pc, raw_id, out1, out2, workbook, tracts_ok, sheet_dfs, load_i,
          gdf_tracts, selected_sheets, slider, selected_cols, weights,
          merged_df, messages>>

normVars == <<raw_id, out1, out2>>
appVars == <<workbook, tracts_ok, sheet_dfs, load_i, gdf_tracts,
             selected_sheets, slider, selected_cols>>
scoreVars == <<weights, merged_df, messages>>

-----------------------------------------------------------------------------
(* Generic helpers on sequences and Python strings.                        *)

Range(s) == {s[i] : i \in DOMAIN s}

RECURSIVE SumSeq(_)
SumSeq(s) == IF s = <<>> THEN 0 ELSE Head(s) + SumSeq(Tail(s))

RECURSIVE FlatMap(_, _)
FlatMap(F(_), s) == IF s = <<>> THEN <<>> ELSE F(Head(s)) \o FlatMap(F, Tail(s))

SelectIdx(s, Test(_)) ==
    LET RECURSIVE Go(_)
        Go(i) == IF i > Len(s) THEN <<>>
                 ELSE (IF Test(i) THEN <<s[i]>> ELSE <<>>) \o Go(i + 1)
    IN Go(1)

CharAt(s, i) == SubSeq(s, i, i)

StartsWithAt(s, p, i) ==
    /\ i + Len(p) - 1 <= Len(s)
    /\ SubSeq(s, i, i + Len(p) - 1) = p

\* str.replace(old, new) (regex=False): every non-overlapping occurrence,
\* scanning once from the left: the text before the leftmost occurrence at
\* or after i, then new, then the same from the end of that occurrence.
RECURSIVE ReplaceFrom(_, _, _, _)
ReplaceFrom(s, old, new, i) ==
    LET hits == {k \in i..(Len(s) - Len(old) + 1) : StartsWithAt(s, old, k)} IN
    IF hits = {} THEN SubSeq(s, i, Len(s))
    ELSE LET k == CHOOSE h \in hits : \A g \in hits : h <= g
         IN SubSeq(s, i, k - 1) \o new \o ReplaceFrom(s, old, new, k + Len(old))

\* The replacement anchored at the start: only an occurrence at the very
\* start is replaced.
StrReplaceLeadingOnly(s, old, new) ==
    IF StartsWithAt(s, old, 1) THEN new \o SubSeq(s, Len(old) + 1, Len(s)) ELSE s

StrReplace(s, old, new) == ReplaceFrom(s, old, new, 1)

Whitespace == {" "}

\* str.strip(): leading and trailing whitespace removed.
RECURSIVE LStrip(_)
LStrip(s) == IF Len(s) > 0 /\ CharAt(s, 1) \in Whitespace
             THEN LStrip(SubSeq(s, 2, Len(s))) ELSE s

RECURSIVE RStrip(_)
RStrip(s) == IF Len(s) > 0 /\ CharAt(s, Len(s)) \in Whitespace
             THEN RStrip(SubSeq(s, 1, Len(s) - 1)) ELSE s

StrStrip(s) == RStrip(LStrip(s))

UpperLetters == "ABCDEFGHIJKLMNOPQRSTUVWXYZ"
LowerLetters == "abcdefghijklmnopqrstuvwxyz"

LowerOf ==
    [c \in {CharAt(UpperLetters, i) : i \in 1..Len(UpperLetters)} |->
        CharAt(LowerLetters, CHOOSE i \in 1..Len(UpperLetters) : CharAt(UpperLetters, i) = c)]

LowerChar(c) == IF c \in DOMAIN LowerOf THEN LowerOf[c] ELSE c

\* str.lower()
RECURSIVE StrLower(_)
StrLower(s) == IF Len(s) = 0 THEN ""
               ELSE LowerChar(CharAt(s, 1)) \o StrLower(SubSeq(s, 2, Len(s)))

Digits == "0123456789"

RECURSIVE NatToStr(_)
NatToStr(n) == IF n < 10 THEN CharAt(Digits, n + 1)
               ELSE NatToStr(n \div 10) \o CharAt(Digits, (n % 10) + 1)

\* A raw spreadsheet cell: a string, an integer, a float holding a whole
\* number, or an empty cell (NaN).
StrCell(s) == [t |-> "str", v |-> s]
IntCell(n) == [t |-> "int", v |-> n]
FloatCell(n) == [t |-> "float", v |-> n]
NaNCell == [t |-> "nan", v |-> 0]

\* Series.astype(str) on one cell.
AsTypeStr(cell) ==
    CASE cell.t = "str" -> cell.v
      [] cell.t = "int" -> NatToStr(cell.v)
      [] cell.t = "float" -> NatToStr(cell.v) \o ".0"
      [] OTHER -> "nan"

PREFIX == "1400000US"

\* Line 37: astype(str).str.replace("1400000US", "", regex=False).str.strip()
NormalizeTractId(cell) == StrStrip(StrReplace(AsTypeStr(cell), PREFIX, ""))

\* Line 35: columns.str.strip().str.lower().str.replace(" ", "")
NormalizeColumn(name) == StrReplace(StrLower(StrStrip(name)), " ", "")

-----------------------------------------------------------------------------
(* Specification SpecNorm: line 37 applied to one raw cell, then applied   *)
(* again to its own result.                                                *)

MaxChunks == 4

Chunks == {PREFIX, "1400000", "US", " ", "21111012300", "1400000us"}

RECURSIVE Concat(_)
Concat(ss) == IF ss = <<>> THEN "" ELSE Head(ss) \o Concat(Tail(ss))

RawStrings == {Concat(ss) : ss \in UNION {[1..n -> Chunks] : n \in 0..MaxChunks}}

RawNumbers == {0, 21, 1400000}

RawCells == {StrCell(s) : s \in RawStrings}
            \cup {IntCell(n) : n \in RawNumbers}
            \cup {FloatCell(n) : n \in RawNumbers}
            \cup {NaNCell}

IdleApp ==
    /\ workbook = <<>> /\ tracts_ok = FALSE /\ sheet_dfs = <<>> /\ load_i = 0
    /\ gdf_tracts = <<>> /\ selected_sheets = <<>> /\ slider = <<>>
    /\ selected_cols = <<>>

IdleScore == weights = <<>> /\ merged_df = <<>> /\ messages = <<>>

IdleNorm == raw_id = NaNCell /\ out1 = "" /\ out2 = ""

InitNorm ==
    /\ pc = "raw"
    /\ raw_id \in RawCells
    /\ out1 = "" /\ out2 = ""
    /\ IdleApp /\ IdleScore

NormalizeOnce ==
    /\ pc = "raw"
    /\ out1' = NormalizeTractId(raw_id)
    /\ pc' = "once"
    /\ UNCHANGED <<raw_id, out2, appVars, scoreVars>>

NormalizeAgain ==
    /\ pc = "once"
    /\ out2' = NormalizeTractId(StrCell(out1))
    /\ pc' = "twice"
    /\ UNCHANGED <<raw_id, out1, appVars, scoreVars>>

NextNorm == NormalizeOnce \/ NormalizeAgain

SpecNorm == InitNorm /\ [][NextNorm]_vars

\* C2: normalisation is idempotent: normalising a normalised identifier
\* returns it unchanged, for every string or numeric raw identifier.
C2_Idempotent == pc = "twice" => out2 = out1

\* The identifier as C3 describes it: the prefix is removed only when the
\* string form starts with it, and only that one occurrence.
AnchoredNormalize(cell) ==
    StrStrip(StrReplaceLeadingOnly(AsTypeStr(cell), PREFIX, ""))

\* C3: the prefix is removed only at the very start of the string form; an
\* occurrence elsewhere, or after leading whitespace, stays in the result,
\* and "1400000US21111012300" becomes "21111012300".
C3_PrefixAnchored ==
    /\ pc # "raw" => out1 = AnchoredNormalize(raw_id)
    /\ NormalizeTractId(StrCell("1400000US21111012300")) = "21111012300"

-----------------------------------------------------------------------------
(* Tables (DataFrames): cols is the sequence of column labels, which pandas *)
(* allows to repeat; rows is a sequence of rows, each a sequence of cells   *)
(* aligned with cols.                                                      *)

NaN == <<>>

IsNull(cell) == cell = NaN

Table(cols, rows) == [cols |-> cols, rows |-> rows]

PositionsOf(cols, name) == {i \in DOMAIN cols : cols[i] = name}

\* col in df.columns
InColumns(df, name) == PositionsOf(df.cols, name) # {}

\* df[col] for one row, when the label is unique
CellOf(df, r, name) == df.rows[r][CHOOSE i \in PositionsOf(df.cols, name) : TRUE]

\* df[name] = values: an existing column is overwritten, a new one appended
SetColumn(df, name, values) ==
    IF InColumns(df, name)
    THEN Table(df.cols,
               [r \in DOMAIN df.rows |->
                   [i \in DOMAIN df.cols |->
                       IF df.cols[i] = name THEN values[r] ELSE df.rows[r][i]]])
    ELSE Table(Append(df.cols, name),
               [r \in DOMAIN df.rows |-> Append(df.rows[r], values[r])])

-----------------------------------------------------------------------------
(* calculate_weighted_risk_index (lines 71-82).  weights is the dict as a   *)
(* sequence of entries [col, w] in key order, w in slider steps.           *)

WeightEntry(col, w) == [col |-> col, w |-> w]

\* A plausible slip: weights[col] >= 0 instead of > 0.
ValidColsNonNegative(df, w) ==
    SelectSeq(w, LAMBDA e : InColumns(df, e.col) /\ e.w >= 0)

\* Line 73: the weight-map keys that are columns of df with weight > 0
ValidCols(df, w) ==
    SelectSeq(w, LAMBDA e : InColumns(df, e.col) /\ e.w > 0)

\* A plausible slip: the sum is divided by the number of fields.
TotalWeightAsCount(valid) == Len(valid)

\* Line 80
TotalWeight(valid) == SumSeq([i \in DOMAIN valid |-> valid[i].w])

\* A plausible slip: a missing value counts as zero (fillna(0)).
RowRiskNullAsZero(df, r, valid) ==
    <<SumSeq([i \in DOMAIN valid |->
                 IF IsNull(CellOf(df, r, valid[i].col)) THEN 0
                 ELSE CellOf(df, r, valid[i].col)[1] * valid[i].w]),
      TotalWeight(valid)>>

\* Lines 79 and 81 for one row: NaN * w and NaN + x are NaN, so one missing
\* value makes the row's quotient NaN.
RowRisk(df, r, valid) ==
    IF \E i \in DOMAIN valid : IsNull(CellOf(df, r, valid[i].col))
    THEN NaN
    ELSE <<SumSeq([i \in DOMAIN valid |->
                      CellOf(df, r, valid[i].col)[1] * valid[i].w]),
           TotalWeight(valid)>>

NoValidColumnsWarning ==
    [by |-> "calculate_weighted_risk_index", kind |-> "warning",
     text |-> "No valid columns selected or all weights are zero."]

\* df[col] is a DataFrame, not a Series, when the label col is repeated in
\* df; the assignment of line 81 then raises ValueError.
AmbiguousColumn(df, valid) ==
    \E i \in DOMAIN valid : Cardinality(PositionsOf(df.cols, valid[i].col)) > 1

calculate_weighted_risk_index(df, w) ==
    LET valid == ValidCols(df, w) IN
    IF valid = <<>>
    THEN [df |-> SetColumn(df, "risk_index", [r \in DOMAIN df.rows |-> NaN]),
          msgs |-> <<NoValidColumnsWarning>>,
          raised |-> FALSE]
    ELSE IF AmbiguousColumn(df, valid)
    THEN [df |-> df, msgs |-> <<>>, raised |-> TRUE]
    ELSE [df |-> SetColumn(df, "risk_index",
                           [r \in DOMAIN df.rows |-> RowRisk(df, r, valid)]),
          msgs |-> <<>>,
          raised |-> FALSE]

\* merged_df["risk_index"].notnull().any()
AnyRiskNotNull(df) ==
    \E r \in DOMAIN df.rows : ~IsNull(CellOf(df, r, "risk_index"))

RiskNotCalculatedWarning ==
    [by |-> "main", kind |-> "warning",
     text |-> "Risk index could not be calculated from selected columns."]
SelectColumnInfo ==
    [by |-> "main", kind |-> "info",
     text |-> "Please select at least one column and assign a weight."]

\* Lines 120-155 of main: the outcome for a joined table and a weight map.
ScoreAndRender(df, w) ==
    IF w # <<>>
    THEN LET res == calculate_weighted_risk_index(df, w) IN
         IF res.raised
         THEN [df |-> df, msgs |-> <<>>, pc |-> "crashed"]
         ELSE IF AnyRiskNotNull(res.df)
         THEN [df |-> res.df, msgs |-> res.msgs, pc |-> "done_map"]
         ELSE [df |-> res.df,
               msgs |-> Append(res.msgs, RiskNotCalculatedWarning),
               pc |-> "done_warning"]
    ELSE [df |-> df, msgs |-> <<SelectColumnInfo>>, pc |-> "done_info"]

-----------------------------------------------------------------------------
(* Specification SpecScore: calculate_weighted_risk_index called on any    *)
(* table and weight map within the bounds, and lines 120-155 of main run   *)
(* on the same.                                                            *)

NumRows == 2
MaxWeight == 2
MaxNegative == 1

ScoreColumns == <<"x", "y">>
ScoreKeys == <<"x", "y", "z">>
CellNumbers == {-1, 2}
Cells == {NaN} \cup {<<v>> : v \in CellNumbers}

ScoreTables ==
    {Table(ScoreColumns, rows) :
        rows \in [1..NumRows -> [1..Len(ScoreColumns) -> Cells]]}

\* Weight maps over ScoreKeys: a key is absent (Absent) or carries a weight.
Absent == (-MaxNegative) - 1
WeightMaps ==
    {LET present == SelectIdx([i \in DOMAIN ScoreKeys |-> i], LAMBDA i : f[i] # Absent)
     IN [k \in DOMAIN present |-> WeightEntry(ScoreKeys[present[k]], f[present[k]])] :
        f \in [DOMAIN ScoreKeys -> ((-MaxNegative)..MaxWeight) \cup {Absent}]}

InitScore ==
    /\ pc = "call"
    /\ merged_df \in ScoreTables
    /\ weights \in WeightMaps
    /\ messages = <<>>
    /\ IdleNorm /\ IdleApp

\* The function called on its own.
CallCalculate ==
    /\ pc = "call"
    /\ LET res == calculate_weighted_risk_index(merged_df, weights) IN
        /\ merged_df' = res.df
        /\ messages' = messages \o res.msgs
        /\ pc' = IF res.raised THEN "raised" ELSE "returned"
    /\ UNCHANGED <<weights, normVars, appVars>>

\* Lines 120-155 of main.
RunScoreAndRender ==
    /\ pc = "call"
    /\ LET res == ScoreAndRender(merged_df, weights) IN
        /\ merged_df' = res.df
        /\ messages' = messages \o res.msgs
        /\ pc' = res.pc
    /\ UNCHANGED <<weights, normVars, appVars>>

NextScore == CallCalculate \/ RunScoreAndRender

SpecScore == InitScore /\ [][NextScore]_vars

(* --- What the claims say, stated without the operators above. ---        *)

\* The columns calculate_weighted_risk_index was given (risk_index is the
\* one it adds).
InputColumns == SelectSeq(merged_df.cols, LAMBDA c : c # "risk_index")

\* The entries that take part according to the spec: the field is a column
\* of the table and its weight is positive.
Participating ==
    SelectSeq(weights, LAMBDA e : e.col \in Range(InputColumns) /\ e.w > 0)

Value(r, col) == merged_df.rows[r][CHOOSE i \in DOMAIN merged_df.cols : merged_df.cols[i] = col]

Risk(r) == Value(r, "risk_index")

HasRisk == "risk_index" \in Range(merged_df.cols)

SumOver(r, entries, Term(_, _)) ==
    SumSeq([i \in DOMAIN entries |-> Term(Value(r, entries[i].col), entries[i].w)])

WeightSum(entries) == SumSeq([i \in DOMAIN entries |-> entries[i].w])

SomeNull(r, entries) == \E i \in DOMAIN entries : Value(r, entries[i].col) = NaN

\* C1 as stated: a missing value counts as zero in the numerator and its
\* weight stays in the denominator, so every row gets a numeric score.
C1_NullTreatedAsZero ==
    (pc = "returned" /\ Participating # <<>>) =>
        \A r \in DOMAIN merged_df.rows :
            /\ Risk(r) # NaN
            /\ Risk(r)[1] * WeightSum(Participating)
                 = SumOver(r, Participating,
                           LAMBDA c, w : IF c = NaN THEN 0 ELSE c[1] * w)
                   * Risk(r)[2]

\* C1 as amended: a row with a missing value in any participating field has
\* a null risk_index; every other row has sum(value*weight) / sum(weight).
C1_NullPropagates ==
    (pc = "returned" /\ Participating # <<>>) =>
        \A r \in DOMAIN merged_df.rows :
            IF SomeNull(r, Participating)
            THEN Risk(r) = NaN
            ELSE /\ Risk(r) # NaN
                 /\ Risk(r)[2] > 0
                 /\ Risk(r)[1] * WeightSum(Participating)
                      = SumOver(r, Participating, LAMBDA c, w : c[1] * w)
                        * Risk(r)[2]

C1_Witness ==
    /\ pc = "returned"
    /\ Len(Participating) = 2
    /\ \E r \in DOMAIN merged_df.rows :
          /\ SomeNull(r, Participating)
          /\ \E i \in DOMAIN Participating : Value(r, Participating[i].col) # NaN
          /\ Risk(r) = NaN
    /\ \E r \in DOMAIN merged_df.rows : Risk(r) # NaN

Degenerate == Participating = <<>>

\* C5: with an empty weight map, only non-positive weights, or no weighted
\* field in the table, nothing is raised, risk_index is null in every row,
\* a diagnostic is emitted, and no score is ever a quotient by zero.
C5_DegenerateWeights ==
    /\ Degenerate => pc \notin {"raised", "crashed"}
    /\ (pc = "returned" /\ Degenerate) =>
          /\ HasRisk
          /\ \A r \in DOMAIN merged_df.rows : Risk(r) = NaN
          /\ NoValidColumnsWarning \in Range(messages)
    /\ (pc \in {"done_map", "done_warning", "done_info"} /\ Degenerate) =>
          /\ pc # "done_map"
          /\ messages # <<>>
          /\ HasRisk => \A r \in DOMAIN merged_df.rows : Risk(r) = NaN
          /\ weights # <<>> => HasRisk /\ NoValidColumnsWarning \in Range(messages)
    /\ (pc # "call" /\ HasRisk) =>
          \A r \in DOMAIN merged_df.rows : Risk(r) # NaN => Risk(r)[2] > 0

C5_Witness ==
    /\ pc = "returned"
    /\ weights # <<>>
    /\ \E i \in DOMAIN weights :
          weights[i].w = 0 /\ weights[i].col \in Range(InputColumns)
    /\ Degenerate
    /\ NoValidColumnsWarning \in Range(messages)
    /\ \A r \in DOMAIN merged_df.rows : Risk(r) = NaN

\* The table as it was passed in.
InputTable ==
    Table(InputColumns,
          [r \in DOMAIN merged_df.rows |->
              SelectIdx(merged_df.rows[r], LAMBDA i : merged_df.cols[i] # "risk_index")])

\* The weight map without its zero-weight entries and without the entries
\* whose field is not a column of the table.
Pruned ==
    SelectSeq(weights, LAMBDA e : e.w # 0 /\ e.col \in Range(InputColumns))

\* C8: zero-weight entries and entries for absent fields change nothing:
\* every risk_index equals the one computed from the pruned weight map.
C8_ExcludedEntriesInert ==
    pc = "returned" =>
        merged_df = calculate_weighted_risk_index(InputTable, Pruned).df

C8_Witness ==
    /\ pc = "returned"
    /\ \E i \in DOMAIN weights :
          weights[i].w = 0 /\ weights[i].col \in Range(InputColumns)
    /\ \E i \in DOMAIN weights : weights[i].col \notin Range(InputColumns)
    /\ Len(Pruned) < Len(weights)
    /\ \E r \in DOMAIN merged_df.rows : Risk(r) # NaN /\ Risk(r)[1] # 0

RowValues(r) == {Value(r, Participating[i].col)[1] : i \in DOMAIN Participating}

Lo(r) == CHOOSE v \in RowValues(r) : \A u \in RowValues(r) : v <= u
Hi(r) == CHOOSE v \in RowValues(r) : \A u \in RowValues(r) : v >= u

-----------------------------------------------------------------------------
(* load_excel_sheets (lines 26-43), load_tracts (lines 46-69) and main     *)
(* (lines 84-155).                                                         *)

SHEETS_TO_USE ==
    <<"DemographicFactorData", "ClinicalFactorData", "PlaceFactorData",
      "BehavorialFactorData", "NeighborhoodChange", "SafetyConcerns",
      "CommunityEngagement", "ExposureToNature">>

\* pd.read_excel raises for a sheet the workbook does not have.
Missing == [header |-> <<>>, rows |-> <<>>, missing |-> TRUE]

RawSheet(header, rows) == [header |-> header, rows |-> rows, missing |-> FALSE]

CouldNotLoadWarning(sheet) ==
    [by |-> "load_excel_sheets", kind |-> "warning",
     text |-> "Could not load sheet '" \o sheet \o "'"]

MissingTractidWarning(sheet) ==
    [by |-> "load_excel_sheets", kind |-> "warning",
     text |-> "Sheet **" \o sheet \o "** is missing a 'tractid' column. Skipped."]

TractsError ==
    [by |-> "load_tracts", kind |-> "error", text |-> "Failed to load tract shapefile"]

\* Line 35 on the header of a raw sheet.
NormalizedColumns(raw) == [j \in DOMAIN raw.header |-> NormalizeColumn(raw.header[j])]

\* A plausible slip: the sheet is kept whether or not it has the column.
HasTractidAlways(cols) == TRUE

\* Line 36: "tractid" in df.columns
HasTractid(cols) == "tractid" \in Range(cols)

\* Lines 35-38: the DataFrame stored for a sheet: normalised labels, the
\* tractid column normalised to a string, every other cell as read.
LoadedFrame(raw) ==
    LET cols == NormalizedColumns(raw) IN
    Table(cols,
          [r \in DOMAIN raw.rows |->
              [j \in DOMAIN cols |->
                  IF cols[j] = "tractid"
                  THEN <<NormalizeTractId(raw.rows[r][j])>>
                  ELSE IF raw.rows[r][j].t = "nan" THEN NaN
                  ELSE <<raw.rows[r][j].v>>]])

SheetEntry(sheet, df) == [sheet |-> sheet, df |-> df]

\* list(sheet_dfs.keys())
LoadedSheets(dfs) == [i \in DOMAIN dfs |-> dfs[i].sheet]

\* sheet_dfs[sheet]
FrameOf(dfs, sheet) == (CHOOSE e \in Range(dfs) : e.sheet = sheet).df

\* The Jefferson County tracts of the shapefile, with tractid_short = GEOID
\* (lines 63-66); main keeps tractid_short and geometry (line 111).
CountyTracts ==
    Table(<<"GEOID", "COUNTYFP", "geometry", "tractid_short">>,
          << <<<<"21111000200">>, <<"111">>, <<"polygon-1">>, <<"21111000200">>>>,
             <<<<"21111000300">>, <<"111">>, <<"polygon-2">>, <<"21111000300">>>>,
             <<<<"21111000400">>, <<"111">>, <<"polygon-3">>, <<"21111000400">>>> >>)

\* gpd.GeoDataFrame()
EmptyFrame == Table(<<>>, <<>>)

\* df[[names]]
Project(df, names) ==
    Table(names,
          [r \in DOMAIN df.rows |-> [k \in DOMAIN names |-> CellOf(df, r, names[k])]])

\* The label a right-hand column gets in merge(..., suffixes=("", "_" +
\* sheet.lower())): suffixed when the left table has the label too.
MergedLabel(left, name, suffix) ==
    IF InColumns(left, name) THEN name \o suffix ELSE name

\* f"_{sheet.lower()}"
Suffix(sheet) == "_" \o StrLower(sheet)

\* A plausible slip: how="inner".
MergeInner(left, right, sheet) ==
    Table(LET suffix == Suffix(sheet) IN
          left.cols \o [j \in DOMAIN right.cols |-> MergedLabel(left, right.cols[j], suffix)],
          FlatMap(LAMBDA lrow :
                      LET key == lrow[CHOOSE i \in PositionsOf(left.cols, "tractid_short") : TRUE]
                      IN [k \in DOMAIN SelectSeq(right.rows,
                                LAMBDA rrow : rrow[CHOOSE i \in PositionsOf(right.cols, "tractid") : TRUE] = key)
                            |-> lrow \o SelectSeq(right.rows,
                                LAMBDA rrow : rrow[CHOOSE i \in PositionsOf(right.cols, "tractid") : TRUE] = key)[k]],
                  left.rows))

\* Line 118: merged_df.merge(df, left_on="tractid_short", right_on="tractid",
\* how="left", suffixes=("", f"_{sheet.lower()}")).  Left rows keep their
\* order; a left row with no match gets NaN in the right-hand columns; a
\* left row with several matches is repeated, in the right table's order.
\* (No sheet of the modelled workbooks has both a label f and the label
\* f_<its own name>, the one case in which pandas itself refuses the
\* suffixes.)
MergeLeft(left, right, sheet) ==
    LET lkey == CHOOSE i \in PositionsOf(left.cols, "tractid_short") : TRUE
        rkey == CHOOSE i \in PositionsOf(right.cols, "tractid") : TRUE
        RightOf(lrow) == SelectSeq(right.rows, LAMBDA rrow : rrow[rkey] = lrow[lkey])
        Expand(lrow) ==
            IF RightOf(lrow) = <<>>
            THEN <<lrow \o [j \in DOMAIN right.cols |-> NaN]>>
            ELSE [k \in DOMAIN RightOf(lrow) |-> lrow \o RightOf(lrow)[k]]
        suffix == Suffix(sheet)
    IN Table(left.cols \o [j \in DOMAIN right.cols |-> MergedLabel(left, right.cols[j], suffix)],
             FlatMap(Expand, left.rows))

\* Lines 111-118: the joins of the selected sheets, in selection order.
RECURSIVE MergeAll(_, _, _)
MergeAll(acc, dfs, selected) ==
    IF selected = <<>> THEN acc
    ELSE LET df == FrameOf(dfs, Head(selected)) IN
         MergeAll(IF ~InColumns(df, "tractid") THEN acc
                  ELSE MergeLeft(acc, df, Head(selected)),
                  dfs, Tail(selected))

\* Lines 100-106: the (sheet, col) pairs that get a checkbox, in loop order.
WidgetIds(dfs, selected) ==
    FlatMap(LAMBDA sheet :
                LET cols == SelectSeq(FrameOf(dfs, sheet).cols,
                                      LAMBDA c : c \notin {"tractid", "tractid_short"})
                IN [k \in DOMAIN cols |-> <<sheet, cols[k]>>],
            selected)

\* weights[col] = w on a dict kept in key order
DictSet(d, col, w) ==
    IF \E i \in DOMAIN d : d[i].col = col
    THEN [i \in DOMAIN d |-> IF d[i].col = col THEN WeightEntry(col, w) ELSE d[i]]
    ELSE Append(d, WeightEntry(col, w))

\* Lines 97-109: selected_cols and weights from the widget state.
RECURSIVE BuildWeights(_, _, _, _)
BuildWeights(ids, state, cols, w) ==
    IF ids = <<>> THEN [selected_cols |-> cols, weights |-> w]
    ELSE IF Head(ids) \in DOMAIN state
         THEN BuildWeights(Tail(ids), state, Append(cols, Head(ids)),
                           DictSet(w, Head(ids)[2], state[Head(ids)]))
         ELSE BuildWeights(Tail(ids), state, cols, w)

-----------------------------------------------------------------------------
(* Specification Spec: one run of the script on a workbook, with a        *)
(* shapefile download that works or fails and the widget state the user    *)
(* has set.                                                                *)

MaxChecked == 2
MaxSlider == 2

ModelledSheets == SubSeq(SHEETS_TO_USE, 1, 3)

HeaderSpaced == <<"Tract ID", "Count ">>
HeaderPlain == <<"tractid", "count">>
HeaderNoKey == <<"GEOID", "count">>
HeaderSuffixLike == <<" TractID", "count_clinicalfactordata">>

\* Two registry tracts in two raw forms, and a tract of another county.
IdsUnique ==
    <<StrCell("1400000US21111000200"), StrCell(" 21111000300 "),
      StrCell("1400000US21029020100")>>
\* One tract twice, in two raw forms.
IdsRepeated == <<StrCell("21111000200"), StrCell("1400000US21111000200")>>

\* The cell of sheet number s at column j, row r: a number that tells the
\* three apart.
DataCell(s, j, r) == IntCell(100 * s + 10 * j + r)

SheetWith(s, header, ids) ==
    RawSheet(header,
             [r \in DOMAIN ids |->
                 [j \in DOMAIN header |-> IF j = 1 THEN ids[r] ELSE DataCell(s, j, r)]])

SheetChoices(s) ==
    {Missing,
     SheetWith(s, HeaderSpaced, IdsUnique), SheetWith(s, HeaderSpaced, IdsRepeated),
     SheetWith(s, HeaderPlain, IdsUnique), SheetWith(s, HeaderNoKey, IdsUnique),
     SheetWith(s, HeaderSuffixLike, IdsUnique)}

Workbooks ==
    {[name \in Range(SHEETS_TO_USE) |->
         IF \E s \in DOMAIN ModelledSheets : ModelledSheets[s] = name
         THEN f[CHOOSE s \in DOMAIN ModelledSheets : ModelledSheets[s] = name]
         ELSE Missing] :
        f \in {g \in [DOMAIN ModelledSheets ->
                          UNION {SheetChoices(s) : s \in DOMAIN ModelledSheets}] :
                    \A s \in DOMAIN ModelledSheets : g[s] \in SheetChoices(s)}}

\* Sequences without repetition over a set: what a multiselect can hold.
RECURSIVE Arrangements(_)
Arrangements(S) ==
    {<<>>} \cup UNION {{<<x>> \o rest : rest \in Arrangements(S \ {x})} : x \in S}

Init ==
    /\ pc = "load_excel_sheets"
    /\ workbook \in Workbooks
    /\ tracts_ok \in BOOLEAN
    /\ load_i = 1
    /\ sheet_dfs = <<>>
    /\ gdf_tracts = EmptyFrame
    /\ selected_sheets = <<>>
    /\ slider = <<>>
    /\ selected_cols = <<>>
    /\ weights = <<>>
    /\ merged_df = EmptyFrame
    /\ messages = <<>>
    /\ IdleNorm

LoaderAdvance ==
    /\ load_i' = load_i + 1
    /\ pc' = IF load_i = Len(SHEETS_TO_USE) THEN "load_tracts" ELSE pc
    /\ UNCHANGED <<workbook, tracts_ok, gdf_tracts, selected_sheets, slider,
                   selected_cols, weights, merged_df, normVars>>

\* Lines 29-33 and 41-42: read_excel raises, the exception is reported.
LoadSheetFails ==
    /\ pc = "load_excel_sheets"
    /\ workbook[SHEETS_TO_USE[load_i]].missing
    /\ messages' = Append(messages, CouldNotLoadWarning(SHEETS_TO_USE[load_i]))
    /\ UNCHANGED sheet_dfs
    /\ LoaderAdvance

\* Lines 35-36 and 39-40: no tractid column after normalisation.
LoadSheetSkipped ==
    /\ pc = "load_excel_sheets"
    /\ ~workbook[SHEETS_TO_USE[load_i]].missing
    /\ ~HasTractid(NormalizedColumns(workbook[SHEETS_TO_USE[load_i]]))
    /\ messages' = Append(messages, MissingTractidWarning(SHEETS_TO_USE[load_i]))
    /\ UNCHANGED sheet_dfs
    /\ LoaderAdvance

\* Lines 35-38: the sheet is normalised and stored.
LoadSheetStored ==
    /\ pc = "load_excel_sheets"
    /\ ~workbook[SHEETS_TO_USE[load_i]].missing
    /\ HasTractid(NormalizedColumns(workbook[SHEETS_TO_USE[load_i]]))
    /\ sheet_dfs' = Append(sheet_dfs,
                           SheetEntry(SHEETS_TO_USE[load_i],
                                      LoadedFrame(workbook[SHEETS_TO_USE[load_i]])))
    /\ UNCHANGED messages
    /\ LoaderAdvance

\* Lines 52-66, then line 90 falls through.
LoadTractsOk ==
    /\ pc = "load_tracts"
    /\ tracts_ok
    /\ gdf_tracts' = CountyTracts
    /\ pc' = "widgets"
    /\ UNCHANGED <<workbook, tracts_ok, sheet_dfs, load_i, selected_sheets, slider,
                   selected_cols, weights, merged_df, messages, normVars>>

\* Lines 67-69, then main returns at line 91.
LoadTractsFails ==
    /\ pc = "load_tracts"
    /\ ~tracts_ok
    /\ gdf_tracts' = EmptyFrame
    /\ messages' = Append(messages, TractsError)
    /\ pc' = "returned_no_tracts"
    /\ UNCHANGED <<workbook, tracts_ok, sheet_dfs, load_i, selected_sheets, slider,
                   selected_cols, weights, merged_df, normVars>>

\* The widget state of one run of the script: the multiselect, the
\* checkboxes and the sliders (lines 94, 107, 109).  Streamlit runs the
\* script from the top on every change, with the loads cached, so a run
\* depends on the widget state alone.
Interact ==
    /\ pc = "widgets"
    /\ \E sel \in Arrangements(Range(LoadedSheets(sheet_dfs))) :
         \E checked \in SUBSET Range(WidgetIds(sheet_dfs, sel)) :
            /\ Cardinality(checked) <= MaxChecked
            /\ \E state \in [checked -> 0..MaxSlider] :
                  /\ selected_sheets' = sel
                  /\ slider' = state
    /\ pc' = "select_columns"
    /\ UNCHANGED <<workbook, tracts_ok, sheet_dfs, load_i, gdf_tracts, selected_cols,
                   weights, merged_df, messages, normVars>>

\* Lines 97-109.
SelectColumns ==
    /\ pc = "select_columns"
    /\ LET built == BuildWeights(WidgetIds(sheet_dfs, selected_sheets), slider, <<>>, <<>>) IN
        /\ selected_cols' = built.selected_cols
        /\ weights' = built.weights
    /\ pc' = "merge"
    /\ UNCHANGED <<workbook, tracts_ok, sheet_dfs, load_i, gdf_tracts, selected_sheets,
                   slider, merged_df, messages, normVars>>

\* Lines 111-118.
MergeSheets ==
    /\ pc = "merge"
    /\ merged_df' = MergeAll(Project(gdf_tracts, <<"tractid_short", "geometry">>),
                             sheet_dfs, selected_sheets)
    /\ pc' = "score"
    /\ UNCHANGED <<workbook, tracts_ok, sheet_dfs, load_i, gdf_tracts, selected_sheets,
                   slider, selected_cols, weights, messages, normVars>>

\* Lines 120-155.
Score ==
    /\ pc = "score"
    /\ LET res == ScoreAndRender(merged_df, weights) IN
        /\ merged_df' = res.df
        /\ messages' = messages \o res.msgs
        /\ pc' = res.pc
    /\ UNCHANGED <<workbook, tracts_ok, sheet_dfs, load_i, gdf_tracts, selected_sheets,
                   slider, selected_cols, weights, normVars>>

Next ==
    \/ LoadSheetFails \/ LoadSheetSkipped \/ LoadSheetStored
    \/ LoadTractsOk \/ LoadTractsFails
    \/ Interact \/ SelectColumns \/ MergeSheets \/ Score

Spec == Init /\ [][Next]_vars

-----------------------------------------------------------------------------
(* What the claims about the loader, the joins and the weight map say.     *)

Merged == pc \in {"score", "done_map", "done_warning", "done_info", "crashed"}

Scored == pc \in {"done_map", "done_warning"}

RegistryIds == [r \in DOMAIN CountyTracts.rows |-> CellOf(CountyTracts, r, "tractid_short")]

Frame(sheet) == (CHOOSE e \in Range(sheet_dfs) : e.sheet = sheet).df

Keys(df) == [r \in DOMAIN df.rows |-> df.rows[r][CHOOSE j \in DOMAIN df.cols : df.cols[j] = "tractid"]]

UniqueKeys(df) == \A a, b \in DOMAIN df.rows : a # b => Keys(df)[a] # Keys(df)[b]

\* C4: with identifiers unique within every selected dataset, the joined
\* table has exactly one row per registry tract, in registry order, whatever
\* the number and order of the joined datasets.
C4_JoinCardinality ==
    (Merged /\ \A k \in DOMAIN selected_sheets : UniqueKeys(Frame(selected_sheets[k]))) =>
        /\ Len(merged_df.rows) = Len(RegistryIds)
        /\ \A r \in DOMAIN merged_df.rows : merged_df.rows[r][1] = RegistryIds[r]

C4_Witness ==
    /\ pc = "score"
    /\ Len(selected_sheets) = 3
    /\ \A k \in DOMAIN selected_sheets : UniqueKeys(Frame(selected_sheets[k]))
    /\ Len(merged_df.rows) = 3
    /\ \E r \in DOMAIN merged_df.rows :
          \A p \in 3..Len(merged_df.cols) : merged_df.rows[r][p] = NaN
    /\ \E r \in DOMAIN merged_df.rows :
          \A p \in 3..Len(merged_df.cols) : merged_df.rows[r][p] # NaN

\* Where each column of the joined table comes from: the registry's two
\* columns, then every selected dataset's columns in selection order.
Origins ==
    <<[sheet |-> "", col |-> "tractid_short"], [sheet |-> "", col |-> "geometry"]>>
    \o FlatMap(LAMBDA sheet :
                   [j \in DOMAIN Frame(sheet).cols |->
                       [sheet |-> sheet, col |-> Frame(sheet).cols[j]]],
               selected_sheets)

\* The tractid-matched cells of a dataset's column for a registry tract.
SourceCells(o, id) ==
    LET df == Frame(o.sheet)
        hits == {r \in DOMAIN df.rows : Keys(df)[r] = id}
    IN IF hits = {} THEN {NaN}
       ELSE {df.rows[r][CHOOSE j \in DOMAIN df.cols : df.cols[j] = o.col] : r \in hits}

\* "_" and the dataset's name in lower case, for every dataset name.
SuffixOf == [name \in Range(SHEETS_TO_USE) |-> "_" \o StrLower(name)]

\* C6: when joined datasets share a field name, every dataset's column is in
\* the joined table under a name of its own, the later ones suffixed with
\* their dataset's name, and every column holds its dataset's values.
C6_SharedNamesKeptApart ==
    (Merged /\ Len(selected_sheets) >= 2) =>
        LET from == Origins
            cols == merged_df.cols
        IN /\ Len(cols) >= Len(from)
           /\ \A p, q \in 1..Len(cols) : p # q => cols[p] # cols[q]
           /\ \A p \in 3..Len(from) :
                 /\ cols[p] \in {from[p].col, from[p].col \o SuffixOf[from[p].sheet]}
                 /\ (\E q \in 1..(p - 1) : from[q].col = from[p].col) =>
                       cols[p] = from[p].col \o SuffixOf[from[p].sheet]
                 /\ \A r \in DOMAIN merged_df.rows :
                       merged_df.rows[r][p] \in SourceCells(from[p], merged_df.rows[r][1])

\* What does hold of the joins in every run: no column of a dataset is lost,
\* and each holds its dataset's values, under its own name or that name
\* with the dataset's suffix.
C6_NothingLost ==
    Merged =>
        LET from == Origins
            cols == merged_df.cols
        IN /\ Len(cols) >= Len(from)
           /\ \A p \in 3..Len(from) :
                 /\ cols[p] \in {from[p].col, from[p].col \o SuffixOf[from[p].sheet]}
                 /\ \A r \in DOMAIN merged_df.rows :
                       merged_df.rows[r][p] \in SourceCells(from[p], merged_df.rows[r][1])

\* The sheets of the workbook that have a tractid field once the field
\* names are normalised, and those that have none.
Keyed(raw) == \E j \in DOMAIN raw.header : NormalizeColumn(raw.header[j]) = "tractid"

Keyless == {name \in Range(SHEETS_TO_USE) : ~workbook[name].missing /\ ~Keyed(workbook[name])}

\* The workbook without its keyless sheets.
WithoutKeyless ==
    LET keyless == Keyless IN
    [name \in Range(SHEETS_TO_USE) |-> IF name \in keyless THEN Missing ELSE workbook[name]]

\* What the loader holds of a workbook whose sheets are all keyed or absent.
RECURSIVE LoadKeyed(_, _)
LoadKeyed(book, i) ==
    IF i > Len(SHEETS_TO_USE) THEN <<>>
    ELSE (IF book[SHEETS_TO_USE[i]].missing THEN <<>>
          ELSE <<SheetEntry(SHEETS_TO_USE[i], LoadedFrame(book[SHEETS_TO_USE[i]]))>>)
         \o LoadKeyed(book, i + 1)

\* The names of the keyed sheets, in the loader's order.
KeyedNames ==
    SelectSeq(SHEETS_TO_USE, LAMBDA name : ~workbook[name].missing /\ Keyed(workbook[name]))

\* C7: a dataset without a tractid field is left out with a warning, and
\* what is loaded and joined is what it would be without that dataset.
C7_KeylessSheetExcluded ==
    /\ pc = "load_tracts" =>
          /\ sheet_dfs = LoadKeyed(WithoutKeyless, 1)
          /\ LoadedSheets(sheet_dfs) = KeyedNames
          /\ \A name \in Keyless : MissingTractidWarning(name) \in Range(messages)
    /\ pc = "score" =>
          LET without == LoadKeyed(WithoutKeyless, 1) IN
          /\ merged_df = MergeAll(Project(CountyTracts, <<"tractid_short", "geometry">>),
                                  without, selected_sheets)
          /\ \A k \in DOMAIN selected_sheets : selected_sheets[k] \notin Keyless

C7_Witness ==
    /\ pc = "score"
    /\ Keyless # {}
    /\ Len(selected_sheets) = 2
    /\ \A name \in Keyless : MissingTractidWarning(name) \in Range(messages)
    /\ Len(merged_df.cols) > 4

\* The field names with a checked box, and for a name the last selected
\* dataset (in selection order) in which it is checked.
CheckedNames == {id[2] : id \in DOMAIN slider}

LastChecked(f) ==
    selected_sheets[CHOOSE k \in DOMAIN selected_sheets :
        /\ <<selected_sheets[k], f>> \in DOMAIN slider
        /\ \A m \in DOMAIN selected_sheets :
              <<selected_sheets[m], f>> \in DOMAIN slider => m <= k]

\* The first selected dataset that has a field f.
FirstWith(f) ==
    selected_sheets[CHOOSE k \in DOMAIN selected_sheets :
        /\ f \in Range(Frame(selected_sheets[k]).cols)
        /\ \A m \in DOMAIN selected_sheets :
              f \in Range(Frame(selected_sheets[m]).cols) => k <= m]

\* One entry per checked field name, holding the slider value of the last
\* selected dataset in which the name is checked.
KeyedByBareName ==
    /\ {weights[i].col : i \in DOMAIN weights} = CheckedNames
    /\ \A i, j \in DOMAIN weights : weights[i].col = weights[j].col => i = j
    /\ \A i \in DOMAIN weights :
          weights[i].w = slider[<<LastChecked(weights[i].col), weights[i].col>>]

Positive == SelectSeq(weights, LAMBDA e : e.w > 0)

Labelled(f) == {p \in DOMAIN merged_df.cols : merged_df.cols[p] = f}

\* risk_index is the weighted mean of the columns labelled by the keys of
\* positive weight (null where one of them is null).
ScoreReadsLabelled ==
    \A r \in DOMAIN merged_df.rows :
        LET cells == [i \in DOMAIN Positive |->
                         merged_df.rows[r][CHOOSE p \in Labelled(Positive[i].col) : TRUE]]
            risk == merged_df.rows[r][CHOOSE p \in Labelled("risk_index") : TRUE]
        IN IF Positive = <<>> \/ \E i \in DOMAIN cells : cells[i] = NaN
           THEN risk = NaN
           ELSE /\ risk # NaN
                /\ risk[1] * SumSeq([i \in DOMAIN Positive |-> Positive[i].w])
                     = SumSeq([i \in DOMAIN cells |-> cells[i][1] * Positive[i].w]) * risk[2]

\* The claim's case: two selected datasets both have a field f, and f is
\* checked for at least one of them.
SharedChecked ==
    \E f \in CheckedNames :
        Cardinality({k \in DOMAIN selected_sheets :
                        f \in Range(Frame(selected_sheets[k]).cols)}) >= 2

\* C10: the weight map is keyed by bare field name with the last checked
\* dataset's weight; when two selected datasets share a checked field name,
\* a score is computed and it reads for each key f the unsuffixed column of
\* the first selected dataset that has f, never a later dataset's suffixed
\* column.
C10_FirstDatasetScored ==
    /\ Merged => KeyedByBareName
    /\ SharedChecked =>
          /\ pc # "crashed"
          /\ Scored =>
                /\ ScoreReadsLabelled
                /\ \A i \in DOMAIN Positive :
                      \A p \in Labelled(Positive[i].col) :
                          /\ Origins[p].col = Positive[i].col
                          /\ Origins[p].sheet = FirstWith(Positive[i].col)

\* What does hold of the score in every run: it reads for each key f
\* the one column labelled f in the joined table: the first selected
\* dataset's f, or, when f is spelled as another field's name with a
\* dataset's suffix, that dataset's suffixed column; the scoring raises only
\* when two columns are labelled f.
C10_LabelledColumnScored ==
    /\ Merged => KeyedByBareName
    /\ Scored =>
          /\ ScoreReadsLabelled
          /\ \A i \in DOMAIN Positive :
                /\ Cardinality(Labelled(Positive[i].col)) = 1
                /\ \A p \in Labelled(Positive[i].col) :
                      \/ /\ Origins[p].col = Positive[i].col
                         /\ Origins[p].sheet = FirstWith(Positive[i].col)
                      \/ /\ Origins[p].col # Positive[i].col
                         /\ Origins[p].col \o SuffixOf[Origins[p].sheet] = Positive[i].col
                         /\ Origins[p].sheet # FirstWith(Origins[p].col)
    /\ pc = "crashed" =>
          \E i \in DOMAIN Positive : Cardinality(Labelled(Positive[i].col)) > 1

\* A run in which "count" is checked for two selected datasets and the
\* weight of the later one is the one kept.
C10_Witness ==
    /\ pc = "done_map"
    /\ Len(selected_sheets) = 2
    /\ <<selected_sheets[1], "count">> \in DOMAIN slider
    /\ <<selected_sheets[2], "count">> \in DOMAIN slider
    /\ slider[<<selected_sheets[1], "count">>] = 2
    /\ slider[<<selected_sheets[2], "count">>] = 1
    /\ weights = <<WeightEntry("count", 1)>>
    /\ \E p \in Labelled("count") : Origins[p].sheet = selected_sheets[1]
    /\ \E r \in DOMAIN merged_df.rows :
          merged_df.rows[r][CHOOSE p \in Labelled("risk_index") : TRUE] # NaN

=============================================================================
